---------------------------- MODULE Spec2Model ----------------------------
(***************************************************************************)
(* A model of oration's comment engine (src/models/comments/mod.rs): the   *)
(* comments table and the operations Comment::insert, Comment::delete,     *)
(* Comment::update, Comment::vote, Comment::count, NestedComment::list and *)
(* update_authorised; and of the handler new_comment of src/main.rs.       *)
(*                                                                         *)
(* Conventions.                                                            *)
(*  - An Option<T> is a set with at most one element: None is {} and       *)
(*    Some(x) is {x}.  An SQL NULL is None.                                *)
(*  - The table `comments` is a function from the ids of its rows to the   *)
(*    rows.                                                                *)
(*  - author, email, website and the ip address are strings on which the   *)
(*    code computes (join, find, split_at): they are sequences of          *)
(*    one-character strings.  The comment text is only stored and cleared: *)
(*    it is a TLA+ string.                                                 *)
(*  - In the sequential specifications every call is one step; `last`      *)
(*    records the call that produced the current state and what it         *)
(*    returned.  In the specifications of interleaved calls a call is one  *)
(*    step per statement it runs on its connection; `calls` holds the      *)
(*    position and the locals of each call in progress.                    *)
(***************************************************************************)
EXTENDS Integers, Sequences, FiniteSets, TLC

VARIABLES
    comments,   \* the comments table: id -> row
    now,        \* the clock: Utc::now(), in ticks (TicksPerSecond to the second)
    voted,      \* history: <<id, ip>> pairs whose vote on the current row id returned Ok
    last,       \* the last call: operation, arguments, locals and result
    calls       \* the calls in progress statement by statement, one per connection

vars == <<comments, now, voted, last, calls>>

-----------------------------------------------------------------------------
(* Bounds of the model.                                                    *)

\* Ids are 1..MaxId: an insert that would need a larger id is not issued.
MaxId == 3

\* In the specifications with votes and edits the ids are 1..MaxVotedId.
MaxVotedId == 2

\* The nesting limits a call may carry are 0..MaxLimit.
MaxLimit == 2

\* A like / dislike counter is not pushed beyond MaxVotes.
MaxVotes == 2

\* The clock runs from 0 to MaxTime.
MaxTime == 1

-----------------------------------------------------------------------------
(* Option<T>.                                                              *)

None == {}

Some(x) == {x}

\* The value inside a Some.
Unwrap(o) == CHOOSE x \in o : TRUE

\* Option::unwrap_or_else(|| d)
UnwrapOr(o, d) == IF o = None THEN d ELSE Unwrap(o)

-----------------------------------------------------------------------------
(* The values of the columns `mode` (NewComment.mode's documentation).     *)

Visible == 0

Pending == 1

Tombstoned == 2


-----------------------------------------------------------------------------
(* Strings the code computes on: sequences of one-character strings.       *)

\* str::find(ch): the 0-based index of the first ch in s, None when absent.
Find(s, ch) ==
    LET hits == {i \in 1..Len(s) : s[i] = ch}
    IN  IF hits = {} THEN None
        ELSE Some((CHOOSE i \in hits : \A j \in hits : i <= j) - 1)

\* str::split_at(mid): (s[..mid], s[mid..]), mid a 0-based byte index.
SplitAt(s, mid) == <<SubSeq(s, 1, mid), SubSeq(s, mid + 1, Len(s))>>

\* itertools::join(data.iter(), sep)
RECURSIVE Join(_, _)
Join(data, sep) ==
    IF Len(data) = 0 THEN <<>>
    ELSE IF Len(data) = 1 THEN data[1]
    ELSE data[1] \o sep \o Join(Tail(data), sep)

\* Sha224 of a string, as a hex string: a one-way digest, modelled as an
\* injective tag on its input; it is never the empty string.
Sha224(s) == <<"sha224", s>>

\* String::default(), as a hash value.
EmptyHash == <<>>

\* gen_hash pushing the address onto the data it joins and hashes.
gen_hash_with_ip(author, email, url, ip_addr) ==
    LET is_data == \E v \in {author, email, url} : v # None
        part(o) == IF o # None THEN <<Unwrap(o)>> ELSE <<>>
        data    == part(author) \o part(email) \o part(url) \o part(ip_addr)
    IN  IF is_data THEN Sha224(Join(data, <<"b">>))
        ELSE IF ip_addr # None THEN Sha224(Unwrap(ip_addr))
        ELSE EmptyHash

\* gen_hash(author, email, url, ip_addr)
gen_hash(author, email, url, ip_addr) ==
    LET is_data == \E v \in {author, email, url} : v # None
        part(o) == IF o # None THEN <<Unwrap(o)>> ELSE <<>>
        data    == part(author) \o part(email) \o part(url)
    IN  IF is_data THEN Sha224(Join(data, <<"b">>))
        ELSE IF ip_addr # None THEN Sha224(Unwrap(ip_addr))
        ELSE EmptyHash

\* get_author(author, email, url): the author to display.
get_author(author, email, url) ==
    IF author # None THEN author
    ELSE IF email # None THEN
        LET real_email == Unwrap(email)
            at_index   == UnwrapOr(Find(real_email, "@"), Len(real_email))
            user       == SplitAt(real_email, at_index)[1]
            domain     == SplitAt(real_email, at_index)[2]
            first_dot  == UnwrapOr(Find(domain, "."), Len(domain))
            trailing   == SplitAt(domain, first_dot)[2]
        IN  Some(user \o <<"@", "*", "*", "*", "*">> \o trailing)
    ELSE url

\* count_votes(likes, dislikes)
count_votes(likes, dislikes) == UnwrapOr(likes, 0) - UnwrapOr(dislikes, 0)

-----------------------------------------------------------------------------
(* The comments table.                                                     *)

\* The ids of the rows of table t.
Ids(t) == DOMAIN t

\* The table t without the rows whose id is in gone.
Without(t, gone) == [i \in Ids(t) \ gone |-> t[i]]

\* The table t with row r stored under id i.
With(t, i, r) == [j \in Ids(t) \cup {i} |-> IF j = i THEN r ELSE t[j]]

\* The id SQLite gives a new row of a table whose id is INTEGER PRIMARY KEY:
\* one more than the largest id in the table (Comment::insert reads the new
\* row back as the row with the largest id).
NextId(t) ==
    IF Ids(t) = {} THEN 1
    ELSE (CHOOSE i \in Ids(t) : \A j \in Ids(t) : j <= i) + 1

\* The value of likes and dislikes in a row inserted with None: the column's
\* default (NewComment leaves both None, and diesel then omits the column).
DefaultVotes == Some(0)

\* SQL `column + 1`: NULL + 1 is NULL.
SqlPlusOne(o) == IF o = None THEN None ELSE Some(Unwrap(o) + 1)

\* comments::table.filter(comments::parent.eq(id)): the ids of id's children.
Children(t, id) == {c \in Ids(t) : t[c].parent = Some(id)}

\* The rows Comment::count counts: those joined to the thread of `path`.
Counted(t, tid) == {c \in Ids(t) : t[c].tid = tid}

\* Comment::count(path)
Count(t, tid) == Cardinality(Counted(t, tid))

-----------------------------------------------------------------------------
(* nesting_check                                                           *)

\* The rows of the recursive query node_ancestors that follow the row
\* (pid, x): one more row (pid, parent of x) for as long as x is the id of a
\* row with a parent.
RECURSIVE node_ancestors(_, _)
node_ancestors(t, x) ==
    IF x \in Ids(t) /\ t[x].parent # None
    THEN 1 + node_ancestors(t, Unwrap(t[x].parent))
    ELSE 0

\* Whether the recursive query started at x never ends: the parent links
\* from x come back to a row already visited.
RECURSIVE WalkLoops(_, _, _)
WalkLoops(t, x, seen) ==
    IF x \notin Ids(t) \/ t[x].parent = None THEN FALSE
    ELSE IF x \in seen THEN TRUE
    ELSE WalkLoops(t, Unwrap(t[x].parent), seen \cup {x})

\* The result of the depth query for pid, a Vec<i32>: no row when no comment
\* has id pid, else the one count COUNT(parent_id) of pid's group.
parent_depth(t, pid) ==
    IF pid \notin Ids(t) THEN <<>> ELSE <<1 + node_ancestors(t, pid)>>

\* nesting_check never returns for this parent.
nesting_diverges(t, parent) ==
    parent # None /\ WalkLoops(t, Unwrap(parent), {})

\* nesting_check making a reply that is nested too deep a top-level comment.
nesting_check_flat(t, parent, nesting_limit) ==
    IF parent = None THEN None
    ELSE LET pid   == Unwrap(parent)
             depth == parent_depth(t, pid)
         IN  IF depth = <<>> \/ depth[1] <= nesting_limit
             THEN Some(pid)
             ELSE None

\* nesting_check(conn, parent, nesting_limit), when it returns.  (The cast
\* `nesting_limit as i32` is the identity for limits below 2^31.)
nesting_check(t, parent, nesting_limit) ==
    IF parent = None THEN None
    ELSE LET pid   == Unwrap(parent)
             depth == parent_depth(t, pid)
         IN  IF depth = <<>> \/ depth[1] <= nesting_limit
             THEN Some(pid)
             ELSE t[pid].parent

-----------------------------------------------------------------------------
(* Comment::insert                                                         *)

\* The row Comment::insert writes (NewComment), before the table fills in
\* the id and the column defaults.
NewComment(tid, parent_id, time, form, ip_addr) ==
    [ tid         |-> tid,
      parent      |-> parent_id,
      created     |-> time,
      modified    |-> None,
      mode        |-> Visible,
      remote_addr |-> IF ip_addr = <<>> THEN None ELSE Some(ip_addr),
      text        |-> form.comment,
      author      |-> form.name,
      email       |-> form.email,
      website     |-> form.url,
      hash        |-> gen_hash(form.name, form.email, form.url, Some(ip_addr)),
      likes       |-> DefaultVotes,
      dislikes    |-> DefaultVotes,
      voters      |-> None ]

\* PrintedComment::get(id) then InsertedComment::new
InsertedComment(t, id) ==
    [ id     |-> id,
      parent |-> t[id].parent,
      author |-> get_author(t[id].author, t[id].email, t[id].website) ]

\* LargestId with the order of the query reversed: the smallest id.
SmallestId(t) == CHOOSE i \in Ids(t) : \A j \in Ids(t) : i <= j

\* The row with the largest id: .order(comments::id.desc()).first()
LargestId(t) == CHOOSE i \in Ids(t) : \A j \in Ids(t) : j <= i

Insert(tid, form, ip_addr, nesting_limit) ==
    /\ NextId(comments) <= MaxId
    /\ IF nesting_diverges(comments, form.parent)
       THEN \* the depth query does not end: the call never returns
            /\ comments' = comments
            /\ last' = [ op |-> "insert", tid |-> tid, form |-> form,
                         nesting_limit |-> nesting_limit,
                         status |-> "Diverges", res |-> None ]
       ELSE LET parent_id == nesting_check(comments, form.parent, nesting_limit)
                c         == NewComment(tid, parent_id, now, form, ip_addr)
                t2        == With(comments, NextId(comments), c)
                comment_id == LargestId(t2)
            IN  /\ comments' = t2
                /\ last' = [ op |-> "insert", tid |-> tid, form |-> form,
                             nesting_limit |-> nesting_limit,
                             status |-> "Ok",
                             res |-> Some(InsertedComment(t2, comment_id)) ]
    /\ UNCHANGED <<now, voted, calls>>

-----------------------------------------------------------------------------
(* Comment::delete                                                         *)

\* ModeDelete flagging the row for review (mode 1) instead of as deleted.
ModeDeletePending(r) ==
    [ r EXCEPT !.mode = Pending, !.remote_addr = None, !.text = "",
               !.author = None, !.email = None, !.website = None,
               !.hash = EmptyHash, !.likes = None, !.dislikes = None,
               !.voters = None ]

\* ModeDelete, applied to row r (treat_none_as_null: every None is written).
ModeDelete(r) ==
    [ r EXCEPT !.mode = Tombstoned, !.remote_addr = None, !.text = "",
               !.author = None, !.email = None, !.website = None,
               !.hash = EmptyHash, !.likes = None, !.dislikes = None,
               !.voters = None ]

\* DeleteOrFlag with the removal filtered on the parent column, as the count
\* before it is, instead of the id: a childless row is then left in place.
DeleteOrFlagByParent(t, id) ==
    LET children_count == Cardinality(Children(t, id))
    IN  IF children_count = 0
        THEN Without(t, Children(t, id))
        ELSE [i \in Ids(t) |-> IF i = id THEN ModeDelete(t[i]) ELSE t[i]]

\* The first statement of Comment::delete: remove the row when it has no
\* children, flag it as deleted when it has.
DeleteOrFlag(t, id) ==
    LET children_count == Cardinality(Children(t, id))
    IN  IF children_count = 0
        THEN Without(t, {id})
        ELSE [i \in Ids(t) |-> IF i = id THEN ModeDelete(t[i]) ELSE t[i]]

\* SweepTargets with the sweep filtering on mode 1 instead of mode 2.
SweepTargetsPending(t) ==
    LET child == {Unwrap(t[c].parent) : c \in {x \in Ids(t) : t[x].parent # None}}
    IN  {i \in Ids(t) : t[i].mode = Pending /\ i \notin child}

\* SweepTargets without the filter on the loaded parents: every row of
\* mode 2.
SweepTargetsAll(t) == {i \in Ids(t) : t[i].mode = Tombstoned}

\* The ids the sweep removes: the rows of mode 2 whose id is not among the
\* non-null parents loaded by the statement before.
SweepTargets(t) ==
    LET child == {Unwrap(t[c].parent) : c \in {x \in Ids(t) : t[x].parent # None}}
    IN  {i \in Ids(t) : t[i].mode = Tombstoned /\ i \notin child}

\* Comment::delete returning before its sweep.
SweepSkipped(t) == t

\* The sweep of Comment::delete.
Sweep(t) == Without(t, SweepTargets(t))

Delete(id) ==
    LET t1 == DeleteOrFlag(comments, id)
        t2 == Sweep(t1)
    IN  /\ comments' = t2
        /\ now' = now
        /\ calls' = calls
        /\ voted' = {v \in voted : v[1] # id /\ v[1] \in Ids(t2)}
        /\ last' = [ op |-> "delete", id |-> id,
                     old |-> IF id \in Ids(comments) THEN Some(comments[id]) ELSE None,
                     children_count |-> Cardinality(Children(comments, id)),
                     swept |-> SweepTargets(t1),
                     status |-> "Ok", res |-> None ]

-----------------------------------------------------------------------------
(* Comment::update                                                         *)

\* The changeset of Comment::update applied to row r.
Edited(r, data, ip_addr, time) ==
    [ r EXCEPT !.text = data.comment, !.author = data.name,
               !.email = data.email, !.website = data.url,
               !.hash = gen_hash(data.name, data.email, data.url, Some(ip_addr)),
               !.modified = Some(time) ]

\* PrintedComment::get(id) then CommentEdits::new
CommentEdits(t, id) ==
    [ id     |-> id,
      author |-> get_author(t[id].author, t[id].email, t[id].website),
      text   |-> t[id].text,
      hash   |-> t[id].hash ]

Update(id, data, ip_addr) ==
    /\ IF id \in Ids(comments)
       THEN LET t2 == [comments EXCEPT ![id] = Edited(comments[id], data, ip_addr, now)]
            IN  /\ comments' = t2
                /\ last' = [ op |-> "update", id |-> id, data |-> data,
                             status |-> "Ok", res |-> Some(CommentEdits(t2, id)) ]
       ELSE \* the UPDATE matches no row; PrintedComment::get finds none
            /\ comments' = comments
            /\ last' = [ op |-> "update", id |-> id, data |-> data,
                         status |-> "DBRead", res |-> None ]
    /\ UNCHANGED <<now, voted, calls>>

-----------------------------------------------------------------------------
(* Comment::vote and the voters blob.  The Bloom filter is taken as an     *)
(* exact set of the addresses set in it (no false positives).              *)

\* Bloom::new_for_fp_rate(150, 0.05)
BloomNew == {}

\* Bloom::set(ip): the filter with ip set.
BloomSet(bloom, ip_addr) == bloom \cup {ip_addr}

\* Bloom::check(ip)
BloomCheck(bloom, ip_addr) == ip_addr \in bloom

\* VotersBlob::new(&bloom): a copy of the filter's bitmap and parameters.
VotersBlobNew(bloom) == bloom

\* Bloom::from_existing(&blob.bitmap, ...): a filter over a copy of the blob.
BloomFromExisting(blob) == blob

\* VotersBlob::store(self, conn, id)
VotersBlobStore(t, id, blob) == [t EXCEPT ![id].voters = Some(blob)]

\* The blob Comment::vote stores when the row already has voters and the
\* address is not among them: `blob`, the value deserialized from the row,
\* and not the filter `bloom` that check_and_set has just changed.
StoredAfterCheck(blob, bloom) == blob

\* The table after the voters part of Comment::vote (can_vote is TRUE).
VotersWritten(t, id, ip_addr) ==
    IF t[id].voters # None
    THEN LET blob  == Unwrap(t[id].voters)
             bloom == BloomSet(BloomFromExisting(blob), ip_addr)
         IN  VotersBlobStore(t, id, StoredAfterCheck(blob, bloom))
    ELSE LET bloom == BloomSet(BloomNew, ip_addr)
         IN  VotersBlobStore(t, id, VotersBlobNew(bloom))

\* can_vote: the row has no voters yet, or the address is not among them.
CanVote(t, id, ip_addr) ==
    \/ t[id].voters = None
    \/ ~BloomCheck(BloomFromExisting(Unwrap(t[id].voters)), ip_addr)

\* The counter update writing 1 instead of adding 1.
TallySet(t, id, upvote) ==
    IF upvote THEN [t EXCEPT ![id].likes = Some(1)]
    ELSE [t EXCEPT ![id].dislikes = Some(1)]

\* The counter update of Comment::vote.
Tally(t, id, upvote) ==
    IF upvote THEN [t EXCEPT ![id].likes = SqlPlusOne(t[id].likes)]
    ELSE [t EXCEPT ![id].dislikes = SqlPlusOne(t[id].dislikes)]

\* Rejected with the counter update placed ahead of the test of can_vote.
RejectedButTallied(t, id, upvote) == Tally(t, id, upvote)

\* The table after a vote that finds the address among the voters: the
\* else branch of `if can_vote` writes nothing.
Rejected(t, id, upvote) == t

Vote(id, ip_addr, upvote) ==
    /\ now' = now
    /\ calls' = calls
    /\ IF id \notin Ids(comments)
       THEN \* .first() finds no row
            /\ comments' = comments
            /\ voted' = voted
            /\ last' = [ op |-> "vote", id |-> id, ip_addr |-> ip_addr,
                         upvote |-> upvote, status |-> "DBRead", res |-> None ]
       ELSE IF CanVote(comments, id, ip_addr)
       THEN /\ UnwrapOr(comments[id].likes, 0) < MaxVotes
            /\ UnwrapOr(comments[id].dislikes, 0) < MaxVotes
            /\ comments' = Tally(VotersWritten(comments, id, ip_addr), id, upvote)
            /\ voted' = voted \cup {<<id, ip_addr>>}
            /\ last' = [ op |-> "vote", id |-> id, ip_addr |-> ip_addr,
                         upvote |-> upvote, status |-> "Ok", res |-> None ]
       ELSE /\ comments' = Rejected(comments, id, upvote)
            /\ voted' = voted
            /\ last' = [ op |-> "vote", id |-> id, ip_addr |-> ip_addr,
                         upvote |-> upvote, status |-> "AlreadyVoted", res |-> None ]

-----------------------------------------------------------------------------
(* NestedComment::list and build_tree                                      *)

\* The elements of a finite set of integers, in ascending order.
RECURSIVE Ascending(_)
Ascending(S) ==
    IF S = {} THEN <<>>
    ELSE LET m == CHOOSE x \in S : \A y \in S : x <= y
         IN  <<m>> \o Ascending(S \ {m})

\* PrintedComment::list(path): the ids of the rows of the thread whose mode
\* is 0 or 2, in the order the table yields them.
PrintedList(t, tid) ==
    Ascending({c \in Ids(t) : t[c].tid = tid /\ t[c].mode \in {Visible, Tombstoned}})

\* The ids of sequence q whose row has parent `want`, in order.
RECURSIVE SelectIds(_, _, _)
SelectIds(q, t, want) ==
    IF q = <<>> THEN <<>>
    ELSE (IF t[Head(q)].parent = want THEN <<Head(q)>> ELSE <<>>)
         \o SelectIds(Tail(q), t, want)

\* graph.neighbors(id): the loaded comments whose parent is id, in the order
\* their edges were added.
Neighbors(t, loaded, id) == SelectIds(loaded, t, Some(id))

\* The nodes of the graph built by list: the loaded comments and the
\* parents they name.
GraphNodes(t, loaded) ==
    LET ids == {loaded[k] : k \in 1..Len(loaded)}
    IN  ids \cup {Unwrap(t[c].parent) : c \in {x \in ids : t[x].parent # None}}

\* TopLevelIds taking the roots from the graph: the nodes that no edge
\* leads to, which include the parents that were not loaded.
GraphRoots(t, loaded) ==
    LET ids == {loaded[k] : k \in 1..Len(loaded)}
    IN  Ascending(GraphNodes(t, loaded) \ {c \in ids : t[c].parent # None})

\* top_level_ids: the loaded comments without a parent.
TopLevelIds(t, loaded) == SelectIds(loaded, t, None)

\* NestedComment::new(comment, children)
NestedComment(t, id, children) ==
    [ id       |-> id,
      text     |-> t[id].text,
      author   |-> get_author(t[id].author, t[id].email, t[id].website),
      hash     |-> t[id].hash,
      children |-> children,
      votes    |-> count_votes(t[id].likes, t[id].dislikes) ]

\* build_tree(graph, id, comments); "panic" when id is not a loaded comment
\* (the unwrap of its position).
RECURSIVE build_tree(_, _, _)
build_tree(t, loaded, id) ==
    LET kids     == Neighbors(t, loaded, id)
        children == [k \in 1..Len(kids) |-> build_tree(t, loaded, kids[k])]
    IN  IF \E k \in 1..Len(loaded) : loaded[k] = id
        THEN NestedComment(t, id, children)
        ELSE [id |-> id, children |-> children, panic |-> TRUE]

\* NestedComment::list(conn, path)
NestedList(t, tid) ==
    LET loaded == PrintedList(t, tid)
        roots  == TopLevelIds(t, loaded)
    IN  [k \in 1..Len(roots) |-> build_tree(t, loaded, roots[k])]

List(tid) ==
    /\ last' = [ op |-> "list", tid |-> tid, status |-> "Ok",
                 res |-> Some(NestedList(comments, tid)) ]
    /\ UNCHANGED <<comments, now, voted, calls>>

\* Time passes between two calls.
Tick ==
    /\ now < MaxTime
    /\ now' = now + 1
    /\ UNCHANGED <<comments, voted, last, calls>>

\* Comment::count as a call.
CountCall(tid) ==
    /\ last' = [ op |-> "count", tid |-> tid, status |-> "Ok",
                 res |-> Some(Count(comments, tid)) ]
    /\ UNCHANGED <<comments, now, voted, calls>>

\* The ids of the nodes of a forest (a sequence of NestedComment), each as
\* often as it occurs.
RECURSIVE NodeIds(_)
NodeIds(forest) ==
    IF forest = <<>> THEN <<>>
    ELSE <<Head(forest).id>> \o NodeIds(Head(forest).children)
         \o NodeIds(Tail(forest))

\* The (parent node, direct child node) pairs of a forest.
RECURSIVE NodeEdges(_)
NodeEdges(forest) ==
    IF forest = <<>> THEN {}
    ELSE LET n == Head(forest)
         IN  {<<n.id, n.children[k].id>> : k \in 1..Len(n.children)}
             \cup NodeEdges(n.children) \cup NodeEdges(Tail(forest))

-----------------------------------------------------------------------------
(* Inputs of the calls.                                                    *)

\* Thread ids (threads::gen_or_get_id resolves them; any may be passed).
Threads == {1, 2}

\* Remote addresses.
Ips == {<<"1">>, <<"2">>}

\* The profile fields of a form: anonymous, or with a name.
Anonymous == [name |-> None, email |-> None, url |-> None]

Named == [name |-> Some(<<"a">>), email |-> None, url |-> None]

\* The comment ids a client may name: the ids of the model.
AnyId == 1..MaxId

\* The parents a form may request: none, or whatever id the client supplies.
AnyParent == {None} \cup {Some(p) : p \in AnyId}

\* The same, in the specifications with votes and edits.
VotedId == 1..MaxVotedId

VotedParent == {None} \cup {Some(p) : p \in VotedId}

\* FormInput / FormEdit with the given profile, text and requested parent.
Form(profile, text, parent) ==
    [ name |-> profile.name, email |-> profile.email, url |-> profile.url,
      comment |-> text, parent |-> parent ]

FormEdit(profile, text) ==
    [ name |-> profile.name, email |-> profile.email, url |-> profile.url,
      comment |-> text ]

\* config.nesting_limit
Limits == 0..MaxLimit

-----------------------------------------------------------------------------
(* Specifications.                                                         *)

\* The database after the migrations: an empty comments table.
\* The connections on which a call can be in progress while another runs.
Slots == {1, 2}

\* A connection with no call in progress.
Idle == [op |-> "none", pc |-> "idle", status |-> "", res |-> None]

Init ==
    /\ comments = <<>>
    /\ now = 0
    /\ voted = {}
    /\ last = [op |-> "init", status |-> "Ok", res |-> None]
    /\ calls = [k \in Slots |-> Idle]

\* Every operation of the comment engine, on a small table.
Next ==
    \/ \E p \in VotedParent :
          /\ NextId(comments) \in VotedId
          /\ Insert(1, Form(Anonymous, "hello", p), <<"1">>, MaxLimit)
    \/ \E id \in VotedId : Delete(id)
    \/ \E id \in VotedId : Update(id, FormEdit(Named, "edit"), <<"1">>)
    \/ \E id \in VotedId, up \in BOOLEAN : Vote(id, <<"1">>, up)
    \/ List(1)
    \/ CountCall(1)
    \/ Tick

Spec == Init /\ [][Next]_vars

\* Inserts, deletes and the reads of one or two threads: the reply forest.
NextForest ==
    \/ \E tid \in Threads, p \in AnyParent, l \in Limits :
          Insert(tid, Form(Anonymous, "hello", p), <<"1">>, l)
    \/ \E id \in AnyId : Delete(id)
    \/ \E tid \in Threads : List(tid)
    \/ \E tid \in Threads : CountCall(tid)

SpecForest == Init /\ [][NextForest]_vars

\* Inserts, deletes and the reads of a single thread.
NextThread ==
    \/ \E p \in AnyParent, l \in Limits :
          Insert(1, Form(Anonymous, "hello", p), <<"1">>, l)
    \/ \E id \in AnyId : Delete(id)
    \/ List(1)
    \/ CountCall(1)

SpecThread == Init /\ [][NextThread]_vars

\* Votes on the root comments of one thread, among inserts and deletes.
NextVote ==
    \/ /\ NextId(comments) \in VotedId
       /\ Insert(1, Form(Anonymous, "hello", None), <<"1">>, MaxLimit)
    \/ \E id \in VotedId : Delete(id)
    \/ \E id \in VotedId, ip \in Ips, up \in BOOLEAN : Vote(id, ip, up)

SpecVote == Init /\ [][NextVote]_vars

-----------------------------------------------------------------------------
(* Properties.                                                             *)

\* The ids reached from id x by following parent links at most n times
\* (x itself not included unless a link leads back to it).
RECURSIVE AncestorsWithin(_, _, _)
AncestorsWithin(t, x, n) ==
    IF n = 0 \/ x \notin Ids(t) \/ t[x].parent = None THEN {}
    ELSE LET p == Unwrap(t[x].parent)
         IN  {p} \cup AncestorsWithin(t, p, n - 1)

\* The ancestors of x: more links than there are rows only repeat.
Ancestors(t, x) == AncestorsWithin(t, x, Cardinality(Ids(t)))

\* C1. Vote dedup: once a vote of address ip on comment id has returned Ok
\* (and the comment has not been deleted or tombstoned since), every later
\* vote of ip on id returns AlreadyVoted and leaves likes and dislikes as
\* they were, whatever other addresses voted before or in between.
VoteDedup ==
    [][ (last'.op = "vote" /\ <<last'.id, last'.ip_addr>> \in voted)
        => /\ last'.status = "AlreadyVoted"
           /\ comments'[last'.id].likes = comments[last'.id].likes
           /\ comments'[last'.id].dislikes = comments[last'.id].dislikes ]_vars

\* C2. Acyclicity: in every state reached by inserts and deletes no comment
\* is its own ancestor.
Acyclicity == \A c \in Ids(comments) : c \notin Ancestors(comments, c)

\* C3. Every Tombstoned comment has empty text, no author, email or website
\* and an empty identity hash, in every state reached by insert, update,
\* delete and vote calls.
TombstoneScrubbed ==
    \A c \in Ids(comments) :
        comments[c].mode = Tombstoned
        => /\ comments[c].text = ""
           /\ comments[c].author = None
           /\ comments[c].email = None
           /\ comments[c].website = None
           /\ comments[c].hash = EmptyHash

\* C4. Depth bound: after an insert with nesting_limit L the parent stored
\* on the new comment is absent or has ancestor-depth <= L, the depth being
\* the value nesting_check's query computes.  (A stored parent for which the
\* query gives no value, no row or no end, is not counted against the claim.)
DepthBound ==
    [][ (last'.op = "insert" /\ last'.status = "Ok")
        => LET new == Unwrap(last'.res).id
               par == comments'[new].parent
           IN  \/ par = None
               \/ Unwrap(par) \notin Ids(comments')
               \/ WalkLoops(comments', Unwrap(par), {})
               \/ parent_depth(comments', Unwrap(par))[1] <= last'.nesting_limit
      ]_vars

\* C5. delete(A) on a comment A with at least one child leaves A in the
\* table, Tombstoned, with id, parent and thread unchanged; every child of A
\* keeps parent = A, and list (of the child's thread) places it under A.
DeleteKeepsChildren ==
    [][ (/\ last'.op = "delete"
         /\ last'.id \in Ids(comments)
         /\ Children(comments, last'.id) # {})
        => LET A == last'.id
           IN  /\ A \in Ids(comments')
               /\ comments'[A].mode = Tombstoned
               /\ comments'[A].parent = comments[A].parent
               /\ comments'[A].tid = comments[A].tid
               /\ \A B \in Children(comments, A) :
                     /\ B \in Ids(comments')
                     /\ comments'[B].parent = Some(A)
                     /\ <<A, B>> \in NodeEdges(NestedList(comments', comments'[B].tid))
      ]_vars

\* C6. delete(A) on a comment A without children removes A's row, so that
\* the count of A's thread no longer includes A; and a row becomes Tombstoned
\* only in a delete of that row while it has at least one child.
DeleteChildless ==
    [][ /\ (/\ last'.op = "delete"
            /\ last'.id \in Ids(comments)
            /\ Children(comments, last'.id) = {})
           => LET A == last'.id
              IN  /\ A \notin Ids(comments')
                  /\ A \notin Counted(comments', comments[A].tid)
                  /\ Count(comments', comments[A].tid)
                        < Count(comments, comments[A].tid)
        /\ \A c \in Ids(comments') :
              (/\ comments'[c].mode = Tombstoned
               /\ (c \notin Ids(comments) \/ comments[c].mode # Tombstoned))
              => /\ last'.op = "delete"
                 /\ last'.id = c
                 /\ Children(comments, c) # {}
      ]_vars

\* C6: a delete of an existing, childless comment has returned and the
\* comment is gone.
DeleteChildlessWitness ==
    /\ last.op = "delete"
    /\ last.old # None
    /\ last.children_count = 0
    /\ last.id \notin Ids(comments)
    /\ comments # <<>>

\* C7. If A is Tombstoned, B is A's only child and B has no children, then
\* after the one call delete(B) neither B nor A is in the table.
DeleteLastChild ==
    [][ (/\ last'.op = "delete"
         /\ last'.id \in Ids(comments)
         /\ Children(comments, last'.id) = {}
         /\ comments[last'.id].parent # None
         /\ Unwrap(comments[last'.id].parent) \in Ids(comments)
         /\ comments[Unwrap(comments[last'.id].parent)].mode = Tombstoned
         /\ Children(comments, Unwrap(comments[last'.id].parent)) = {last'.id})
        => /\ last'.id \notin Ids(comments')
           /\ Unwrap(comments[last'.id].parent) \notin Ids(comments')
      ]_vars

\* C7: a delete of a childless comment has returned whose parent, a row of
\* mode 2, was removed by the sweep of the same call.
DeleteLastChildWitness ==
    /\ last.op = "delete"
    /\ last.old # None
    /\ last.children_count = 0
    /\ Unwrap(last.old).parent # None
    /\ Unwrap(Unwrap(last.old).parent) \in last.swept
    /\ Unwrap(Unwrap(last.old).parent) \notin Ids(comments)
    /\ last.id \notin Ids(comments)

\* C8. list(thread) returns a forest in which every Visible or Tombstoned
\* comment of the thread occurs exactly once, whose roots are exactly the
\* comments without a parent, and in which B is a direct child of A exactly
\* when B.parent = A.
ListIsTheForest ==
    last.op = "list"
    => LET forest == Unwrap(last.res)
           shown  == {c \in Ids(comments) :
                        /\ comments[c].tid = last.tid
                        /\ comments[c].mode \in {Visible, Tombstoned}}
           ids    == NodeIds(forest)
       IN  /\ \A c \in shown : Cardinality({k \in 1..Len(ids) : ids[k] = c}) = 1
           /\ \A k \in 1..Len(ids) : ids[k] \in shown
           /\ {forest[k].id : k \in 1..Len(forest)}
                 = {c \in shown : comments[c].parent = None}
           /\ NodeEdges(forest)
                 = {<<Unwrap(comments[c].parent), c>> :
                        c \in {x \in shown : comments[x].parent # None}}

\* C9. Each comment's parent is absent or the id of a comment that is in the
\* table and belongs to the same thread.
ParentInSameThread ==
    \A c \in Ids(comments) :
        \/ comments[c].parent = None
        \/ /\ Unwrap(comments[c].parent) \in Ids(comments)
           /\ comments[Unwrap(comments[c].parent)].tid = comments[c].tid

\* C10. When vote returns AlreadyVoted the comment's likes, dislikes and
\* voters are what they were before the call and no other row is written:
\* the table is unchanged.
AlreadyVotedWritesNothing ==
    [][ (last'.op = "vote" /\ last'.status = "AlreadyVoted")
        => /\ comments'[last'.id].likes = comments[last'.id].likes
           /\ comments'[last'.id].dislikes = comments[last'.id].dislikes
           /\ comments'[last'.id].voters = comments[last'.id].voters
           /\ comments' = comments ]_vars

\* C10: a vote has returned AlreadyVoted on a comment that carries votes.
AlreadyVotedWitness ==
    /\ last.op = "vote"
    /\ last.status = "AlreadyVoted"
    /\ last.id \in Ids(comments)
    /\ comments[last.id].voters # None
    /\ <<last.id, last.ip_addr>> \in voted

\* C11. Every vote that returns Ok changes the votes value list reports for
\* the comment (likes - dislikes, a missing counter read as 0) by exactly
\* +1 for an upvote and -1 for a downvote, and leaves the counters of every
\* other comment as they were.  (now' = now: the step is the call, not the
\* clock moving after it.)
VoteCountsOne ==
    [][ (last'.op = "vote" /\ last'.status = "Ok" /\ now' = now)
        => /\ count_votes(comments'[last'.id].likes, comments'[last'.id].dislikes)
                = count_votes(comments[last'.id].likes, comments[last'.id].dislikes)
                  + (IF last'.upvote THEN 1 ELSE -1)
           /\ \A c \in Ids(comments) \ {last'.id} :
                 /\ comments'[c].likes = comments[c].likes
                 /\ comments'[c].dislikes = comments[c].dislikes ]_vars

-----------------------------------------------------------------------------
(* Comment::vote when a statement fails.  Each statement of the call is    *)
(* its own implicit transaction; the call opens none around them.          *)

\* The statements of Comment::vote that return through `?`: the read of the
\* voters column, the write of VotersBlob::store, the counter update.
VoteStatements == {"read", "store", "tally"}

\* Comment::vote in which statement `failed` returns an error.  The
\* statements before it have taken effect; `?` returns the error at once.
VoteFails(id, ip_addr, upvote, failed) ==
    /\ now' = now
    /\ calls' = calls
    /\ voted' = voted
    /\ last' = [ op |-> "vote", id |-> id, ip_addr |-> ip_addr,
                 upvote |-> upvote, status |-> "DBRead", res |-> None,
                 failed |-> failed ]
    /\ IF failed = "read"
       THEN comments' = comments
       ELSE \* the writes are run only for a row that is there and an
            \* address that can vote
            IF id \in Ids(comments) /\ CanVote(comments, id, ip_addr)
            THEN comments' = IF failed = "store" THEN comments
                             ELSE VotersWritten(comments, id, ip_addr)
            ELSE FALSE

\* Votes that succeed or fail at any statement, among inserts and deletes.
NextVoteFails ==
    \/ NextVote
    \/ \E id \in VotedId, ip \in Ips, up \in BOOLEAN, failed \in VoteStatements :
          VoteFails(id, ip, up, failed)

SpecVoteFails == Init /\ [][NextVoteFails]_vars

\* C12. The two writes of a vote take effect as one unit: when vote returns
\* an error (a statement failed, or the address had voted), the stored
\* voters, likes and dislikes of every comment are what they were before.
VoteIsOneUnit ==
    [][ (last'.op = "vote" /\ last'.status # "Ok")
        => \A c \in Ids(comments) :
              /\ c \in Ids(comments')
              /\ comments'[c].voters = comments[c].voters
              /\ comments'[c].likes = comments[c].likes
              /\ comments'[c].dislikes = comments[c].dislikes ]_vars

-----------------------------------------------------------------------------
(* update_authorised.  The clock `now`, created and modified are           *)
(* NaiveDateTime values, which have a part below the second; they are      *)
(* counted in ticks, TicksPerSecond of them to the second.  The offset is  *)
(* an f32 number of seconds, counted in the same ticks.                    *)

TicksPerSecond == 2

\* The largest clock value and the largest offset of the edit specification.
MaxClock == 4

MaxOffset == 4

\* The comments the edit specification inserts.
MaxEdited == 1

\* NaiveDateTime::timestamp(): the whole seconds of a time (not negative).
timestamp(time) == time \div TicksPerSecond

\* `offset as i64`: the f32 converted to an integer, rounding toward zero.
AsI64(offset) ==
    IF offset >= 0 THEN offset \div TicksPerSecond
    ELSE -((-offset) \div TicksPerSecond)

\* AuthHash::matches(&stored_hash): the claimed hash equals the stored one.
matches(hash, stored_hash) == hash = stored_hash

\* updated_timestamp taking the time of creation in every case.
updated_timestamp_created(created, modified) == timestamp(created)

\* updated_timestamp: of modified when there is one, of created when not.
updated_timestamp(created, modified) ==
    IF modified # None THEN timestamp(Unwrap(modified)) ELSE timestamp(created)

\* The result of update_authorised for a row that was read, at time clock.
Authorised(row, hash, offset, clock) ==
    LET now_timestamp == timestamp(clock)
    IN  IF matches(hash, row.hash)
           /\ (now_timestamp - updated_timestamp(row.created, row.modified)
                 < AsI64(offset))
        THEN "Ok" ELSE "Unauthorized"

UpdateAuthorised(hash, id, offset) ==
    /\ last' = [ op |-> "update_authorised", hash |-> hash, id |-> id,
                 offset |-> offset,
                 picked |-> IF id \in Ids(comments)
                            THEN Some(updated_timestamp(comments[id].created,
                                                        comments[id].modified))
                            ELSE None,
                 status |-> IF id \in Ids(comments)
                            THEN Authorised(comments[id], hash, offset, now)
                            ELSE "DBRead",
                 res |-> None ]
    /\ UNCHANGED <<comments, now, voted, calls>>

\* Time passes between two calls, up to MaxClock.
Pass ==
    /\ now < MaxClock
    /\ now' = now + 1
    /\ UNCHANGED <<comments, voted, last, calls>>

EditedId == 1..MaxEdited

\* The hashes a client may claim: of an anonymous author at the address of
\* the inserts, of the profile of the edits, and one that is neither.
ClaimedHashes ==
    { gen_hash(None, None, None, Some(<<"1">>)),
      gen_hash(Named.name, Named.email, Named.url, Some(<<"1">>)),
      EmptyHash }

\* f32 offsets, in ticks.
Offsets == (-1)..MaxOffset

\* Inserts, edits and authorisation checks of a comment while time passes.
NextEdit ==
    \/ /\ NextId(comments) \in EditedId
       /\ Insert(1, Form(Anonymous, "hello", None), <<"1">>, MaxLimit)
    \/ \E id \in EditedId : Update(id, FormEdit(Named, "edit"), <<"1">>)
    \/ \E hash \in ClaimedHashes, id \in EditedId, offset \in Offsets :
          UpdateAuthorised(hash, id, offset)
    \/ Pass

SpecEdit == Init /\ [][NextEdit]_vars

\* The later of created and modified.
LastWritten(row) ==
    IF row.modified # None /\ Unwrap(row.modified) > row.created
    THEN Unwrap(row.modified) ELSE row.created

\* C13, as stated.  update_authorised on a stored comment returns Ok exactly
\* when the claimed hash matches the stored one and now - max(modified,
\* created) < offset, and Unauthorized otherwise; the time it picks is the
\* later of modified and created.
UpdateAuthorisedExact ==
    [][ (/\ last'.op = "update_authorised"
         /\ now' = now
         /\ last'.id \in Ids(comments))
        => LET row == comments[last'.id]
           IN  /\ last'.status \in {"Ok", "Unauthorized"}
               /\ last'.status = "Ok"
                    <=> /\ matches(last'.hash, row.hash)
                        /\ now - LastWritten(row) < last'.offset
               /\ last'.picked = Some(timestamp(LastWritten(row)))
      ]_vars

\* C13, amended.  update_authorised on a stored comment returns Ok exactly
\* when the claimed hash matches the stored one and the whole seconds of now
\* minus the whole seconds of max(modified, created) are fewer than the
\* offset rounded toward zero to whole seconds, and Unauthorized otherwise;
\* the time it picks is the later of modified and created.
UpdateAuthorisedWholeSeconds ==
    [][ (/\ last'.op = "update_authorised"
         /\ now' = now
         /\ last'.id \in Ids(comments))
        => LET row == comments[last'.id]
           IN  /\ last'.status \in {"Ok", "Unauthorized"}
               /\ last'.status = "Ok"
                    <=> /\ matches(last'.hash, row.hash)
                        /\ timestamp(now) - timestamp(LastWritten(row))
                              < AsI64(last'.offset)
               /\ last'.picked = Some(timestamp(LastWritten(row)))
      ]_vars

\* C13: an edit is authorised within the offset of an update, more than the
\* offset after the comment was created.
UpdateAuthorisedWitness ==
    /\ last.op = "update_authorised"
    /\ last.status = "Ok"
    /\ last.id \in Ids(comments)
    /\ comments[last.id].modified # None
    /\ timestamp(now) - timestamp(comments[last.id].created) >= AsI64(last.offset)
    /\ last.picked = Some(timestamp(Unwrap(comments[last.id].modified)))

\* C14. A successful insert adds exactly one row and changes no other; the
\* new row has mode Visible, no modification time, no votes and the parent
\* nesting_check resolves from the requested one; the InsertedComment
\* returned carries the id and the parent of that row.
InsertAddsOneRow ==
    [][ (last'.op = "insert" /\ last'.status = "Ok")
        => LET new == Ids(comments') \ Ids(comments)
               n   == CHOOSE x \in new : TRUE
               row == comments'[n]
           IN  /\ Cardinality(new) = 1
               /\ \A c \in Ids(comments) :
                     c \in Ids(comments') /\ comments'[c] = comments[c]
               /\ row.mode = Visible
               /\ row.modified = None
               /\ row.voters = None
               /\ count_votes(row.likes, row.dislikes) = 0
               /\ row.parent = nesting_check(comments, last'.form.parent,
                                             last'.nesting_limit)
               /\ Unwrap(last'.res).id = n
               /\ Unwrap(last'.res).parent = row.parent
      ]_vars

\* C14: an insert has returned the id of a new row, not the first, whose
\* parent is an ancestor of the comment the form asked to reply to, in a
\* table whose parent links all lead to stored comments and form no loop.
InsertAddsOneRowWitness ==
    /\ last.op = "insert"
    /\ last.status = "Ok"
    /\ Unwrap(last.res).id \in Ids(comments)
    /\ Unwrap(last.res).id > 1
    /\ Unwrap(last.res).parent # None
    /\ Unwrap(last.res).parent # last.form.parent
    /\ comments[Unwrap(last.res).id].parent = Unwrap(last.res).parent
    /\ Acyclicity
    /\ ParentInSameThread

-----------------------------------------------------------------------------
(* gen_hash and get_author as calls on their own.                          *)

GenHash(author, email, url, ip_addr) ==
    /\ last' = [ op |-> "gen_hash", author |-> author, email |-> email,
                 url |-> url, ip_addr |-> ip_addr, status |-> "Ok",
                 res |-> Some(gen_hash(author, email, url, ip_addr)) ]
    /\ UNCHANGED <<comments, now, voted, calls>>

\* Optional profile strings: absent, empty, and two that join to a third.
ProfileStrings ==
    {None, Some(<<>>), Some(<<"a">>), Some(<<"a", "b", "a">>)}

\* The optional address of a call.
OptionalIps == {None} \cup {Some(ip) : ip \in Ips}

NextHash ==
    \E author \in ProfileStrings, email \in ProfileStrings,
       url \in ProfileStrings, ip_addr \in OptionalIps :
          GenHash(author, email, url, ip_addr)

SpecHash == Init /\ [][NextHash]_vars

\* C15. gen_hash gives the empty string when no author, email, website or
\* address is given; the digest of the address alone when only the address
\* is given; and, when an author, email or website is given, the same hash
\* whatever address, or none, is passed with them.  (The same inputs give
\* the same hash: gen_hash reads nothing but its arguments.)
HashOfIdentity ==
    last.op = "gen_hash"
    => LET is_data == last.author # None \/ last.email # None \/ last.url # None
           res     == Unwrap(last.res)
       IN  /\ (~is_data /\ last.ip_addr = None) => res = EmptyHash
           /\ (~is_data /\ last.ip_addr # None)
                 => /\ res = Sha224(Unwrap(last.ip_addr))
                    /\ res # EmptyHash
           /\ is_data
                 => \A ip \in OptionalIps :
                       gen_hash(last.author, last.email, last.url, ip) = res
           /\ res = gen_hash(last.author, last.email, last.url, last.ip_addr)

\* C15: gen_hash was called with an author and an address.
HashOfIdentityWitness ==
    /\ last.op = "gen_hash"
    /\ last.author # None
    /\ last.email = None
    /\ last.ip_addr # None
    /\ Unwrap(last.res) # EmptyHash
    /\ Unwrap(last.res) # Sha224(Unwrap(last.ip_addr))

GetAuthor(author, email, url) ==
    /\ last' = [ op |-> "get_author", author |-> author, email |-> email,
                 url |-> url, status |-> "Ok",
                 res |-> get_author(author, email, url) ]
    /\ UNCHANGED <<comments, now, voted, calls>>

\* Optional author names and websites.
AuthorStrings == {None, Some(<<"a">>), Some(<<"a", "b">>)}

UrlStrings == {None, Some(<<>>), Some(<<"w">>), Some(<<"w", ".", "c">>)}

\* Optional emails: absent, without '@', without a dot, with one, two and
\* three dots in the domain, with a dot in the part before '@'.
EmailStrings ==
    { None,
      Some(<<"u">>),
      Some(<<"u", "@", "m">>),
      Some(<<"u", "@", "m", ".", "c">>),
      Some(<<"u", ".", "v", "@", "m", ".", "c">>),
      Some(<<"u", "@", "m", ".", "x", ".", "c">>),
      Some(<<"u", ".", "v", "@", "m", ".", "x", ".", "c">>),
      Some(<<"u", "@", "m", ".", "x", ".", "y", ".", "c">>),
      Some(<<"@", "m", ".", "c">>) }

NextAuthor ==
    \E author \in AuthorStrings, email \in EmailStrings, url \in UrlStrings :
        GetAuthor(author, email, url)

SpecAuthor == Init /\ [][NextAuthor]_vars

\* The 0-based index of the last ch in s, None when absent.
FindLast(s, ch) ==
    LET hits == {i \in 1..Len(s) : s[i] = ch}
    IN  IF hits = {} THEN None
        ELSE Some((CHOOSE i \in hits : \A j \in hits : j <= i) - 1)

\* An email with everything masked but the part before '@' and the final
\* label of the domain (with its dot).
MaskedEmail(real_email) ==
    LET at_index == UnwrapOr(Find(real_email, "@"), Len(real_email))
        user     == SplitAt(real_email, at_index)[1]
        domain   == SplitAt(real_email, at_index)[2]
        last_dot == UnwrapOr(FindLast(domain, "."), Len(domain))
    IN  user \o <<"@", "*", "*", "*", "*">> \o SplitAt(domain, last_dot)[2]

\* C16. The display author is the author name when present; otherwise, when
\* an email is present, the part of the email before '@', then "@****",
\* then only the final label of the domain; otherwise the website as it is;
\* otherwise absent.
DisplayAuthor ==
    last.op = "get_author"
    => last.res = IF last.author # None THEN last.author
                  ELSE IF last.email # None
                       THEN Some(MaskedEmail(Unwrap(last.email)))
                       ELSE last.url

\* C17. After any delete call returns, no Tombstoned comment with zero
\* children remains in the table.
NoChildlessTombstone ==
    last.op = "delete"
    => \A c \in Ids(comments) :
          comments[c].mode = Tombstoned => Children(comments, c) # {}

\* The table after the call delete(id): both statements of Comment::delete.
Deleted(t, id) == Sweep(DeleteOrFlag(t, id))

\* The table after the calls delete(ids[1]), delete(ids[2]), ... in a row.
RECURSIVE AfterDeletes(_, _)
AfterDeletes(t, ids) ==
    IF ids = <<>> THEN t ELSE AfterDeletes(Deleted(t, Head(ids)), Tail(ids))

\* The chain of Tombstoned comments above c, lowest first: the parent of c
\* while it is stored, Tombstoned and has c as its only child, then the
\* chain above that parent; n bounds the links followed.
RECURSIVE TombstoneChain(_, _, _)
TombstoneChain(t, c, n) ==
    IF n = 0 \/ t[c].parent = None THEN <<>>
    ELSE LET p == Unwrap(t[c].parent)
         IN  IF p \in Ids(t) /\ t[p].mode = Tombstoned /\ Children(t, p) = {c}
             THEN <<p>> \o TombstoneChain(t, p, n - 1)
             ELSE <<>>

\* C18. Repeated deletes collapse a chain of Tombstoned comments: when the
\* single childless live reply under the lowest of them is deleted, the
\* lowest j comments of the chain are out of the table after j delete calls
\* in total, that call and any j - 1 further ones (no insert in between),
\* for every j up to the length of the chain.
ChainCollapses ==
    [][ (/\ last'.op = "delete"
         /\ last'.id \in Ids(comments)
         /\ comments[last'.id].mode = Visible
         /\ Children(comments, last'.id) = {})
        => LET chain == TombstoneChain(comments, last'.id,
                                       Cardinality(Ids(comments)))
           IN  \A j \in 1..Len(chain) :
                  \A ids \in [1..(j - 1) -> AnyId] :
                     \A i \in 1..j :
                        chain[i] \notin Ids(AfterDeletes(comments', ids))
      ]_vars

\* C18: the reply under a chain has been deleted, its parent was swept in
\* the same call, and a childless Tombstoned comment is left for the next
\* delete call to sweep.
ChainCollapsesWitness ==
    /\ last.op = "delete"
    /\ last.old # None
    /\ Unwrap(last.old).mode = Visible
    /\ last.children_count = 0
    /\ Unwrap(last.old).parent # None
    /\ last.swept = {Unwrap(Unwrap(last.old).parent)}
    /\ \E c \in Ids(comments) :
          /\ comments[c].mode = Tombstoned
          /\ Children(comments, c) = {}
          /\ \A id \in AnyId : c \notin Ids(Deleted(comments, id))

-----------------------------------------------------------------------------
(* The handler new_comment of main.rs (POST /oration).  The statuses are   *)
(* the names of rocket's Status: Ok is 200, BadRequest 400, Forbidden 403, *)
(* InternalServerError 500.  threads::gen_or_get_id and                    *)
(* notify::send_notification are called for their results only: what they  *)
(* return is an input of the request.                                      *)

\* The table after the INSERT of Comment::insert.
InsertedTable(t, tid, form, ip_addr, nesting_limit, time) ==
    With(t, NextId(t),
         NewComment(tid, nesting_check(t, form.parent, nesting_limit),
                    time, form, ip_addr))

\* The statements of Comment::insert that can return an error: the depth
\* query of nesting_check, the INSERT, the reads that follow it.
InsertStatements == {"nesting", "insert", "read"}

\* The match on the error of thread resolution giving 500 in both arms.
ThreadErrorIs500(kind) == "InternalServerError"

\* The status set for an error of threads::gen_or_get_id.
ThreadErrorStatus(kind) ==
    IF kind = "PathCheckFailed" THEN "Forbidden" ELSE "InternalServerError"

\* The match on the result of the notification setting 500 in its Err arm.
NotificationFailureIs500(status, sent) ==
    IF sent = "Err" THEN "InternalServerError" ELSE status

\* The status after the match on the result of notify::send_notification:
\* both arms only log.
AfterNotification(status, sent) == status

\* What the handler returns, and what it did on the way.
Response(comment, thread, insert, notification, status, body) ==
    [ op |-> "new_comment", comment |-> comment, thread |-> thread,
      insert |-> insert, notification |-> notification,
      status |-> status, body |-> body, res |-> None ]

\* new_comment for a request from remote_addr whose form parsed as
\* `comment`, with thread resolution returning `thread`, statement `failed`
\* of Comment::insert (or none) failing, config.nesting_limit, notifications
\* on or off, the sender returning `sent`.
new_comment(comment, remote_addr, thread, failed, nesting_limit, notify, sent) ==
    /\ UNCHANGED <<now, voted, calls>>
    /\ IF comment.kind # "Ok"
       THEN \* Err(Some(f)) and Err(None)
            /\ comments' = comments
            /\ last' = Response(comment, "NotCalled", "NotCalled",
                                "NotAttempted", "BadRequest",
                                IF comment.kind = "Malformed"
                                THEN "Invalid form input: f"
                                ELSE "Form input was invalid UTF8.")
       ELSE IF thread.kind # "Ok"
       THEN /\ comments' = comments
            /\ last' = Response(comment, thread.kind, "NotCalled",
                                "NotAttempted", ThreadErrorStatus(thread.kind), "")
       ELSE /\ NextId(comments) <= MaxId
            /\ IF nesting_diverges(comments, comment.form.parent)
               THEN \* the depth query does not end: no response
                    /\ comments' = comments
                    /\ last' = Response(comment, "Ok", "Diverges",
                                        "NotAttempted", "None", "")
               ELSE IF failed \in {"nesting", "insert"}
               THEN /\ failed = "nesting" => comment.form.parent # None
                    /\ comments' = comments
                    /\ last' = Response(comment, "Ok", "Err", "NotAttempted",
                                        "InternalServerError", "")
               ELSE IF failed = "read"
               THEN /\ comments' = InsertedTable(comments, thread.tid,
                                        comment.form, remote_addr, nesting_limit, now)
                    /\ last' = Response(comment, "Ok", "Err", "NotAttempted",
                                        "InternalServerError", "")
               ELSE /\ comments' = InsertedTable(comments, thread.tid,
                                        comment.form, remote_addr, nesting_limit, now)
                    /\ last' = Response(comment, "Ok", "Ok",
                                        IF notify THEN sent ELSE "NotAttempted",
                                        IF notify
                                        THEN AfterNotification("Ok", sent)
                                        ELSE "Ok",
                                        "Comment recieved.")

\* The parsed form of a request: a form, a malformed one, one that is not
\* UTF-8 (the form field is read for kind "Ok" only).
FormRequests ==
    {[kind |-> "Ok", form |-> Form(Anonymous, "hello", p)] : p \in AnyParent}

Requests ==
    FormRequests
    \cup {[kind |-> k, form |-> Form(Anonymous, "", None)] :
             k \in {"Malformed", "NotUtf8"}}

\* The results of threads::gen_or_get_id: a thread id, or an error.
ThreadFound == [kind |-> "Ok", tid |-> 1]

ThreadResults ==
    {ThreadFound}
    \cup {[kind |-> k, tid |-> 0] : k \in {"PathCheckFailed", "DBRead", "DBInsert"}}

\* Requests to POST /oration, among deletes: any parse of the form and any
\* result of thread resolution; a failure in Comment::insert; notifications
\* on, the sender succeeding or failing.
NextServer ==
    \/ \E comment \in Requests, thread \in ThreadResults :
          new_comment(comment, <<"1">>, thread, "none", MaxLimit, FALSE, "Ok")
    \/ \E comment \in FormRequests, failed \in InsertStatements :
          new_comment(comment, <<"1">>, ThreadFound, failed, MaxLimit, FALSE, "Ok")
    \/ \E comment \in FormRequests, sent \in {"Ok", "Err"} :
          new_comment(comment, <<"1">>, ThreadFound, "none", MaxLimit, TRUE, sent)
    \/ \E id \in AnyId : Delete(id)

SpecServer == Init /\ [][NextServer]_vars

\* The row a successful Comment::insert of the request adds.
RequestedRow(t, l, time) ==
    NewComment(1, nesting_check(t, l.comment.form.parent, MaxLimit),
               time, l.comment.form, <<"1">>)

\* C19. In new_comment the notification is attempted only after
\* Comment::insert has succeeded, and when the sender fails the response
\* status is still Ok (200) and the comment is stored as it was inserted.
NotificationAfterInsert ==
    [][ (last'.op = "new_comment" /\ last'.notification # "NotAttempted")
        => /\ last'.insert = "Ok"
           /\ last'.status = "Ok"
           /\ Ids(comments') = Ids(comments) \cup {NextId(comments)}
           /\ comments'[NextId(comments)] = RequestedRow(comments, last', now)
           /\ \A c \in Ids(comments) : comments'[c] = comments[c]
      ]_vars

\* C19: a request has been answered with status Ok after the sender failed.
NotificationAfterInsertWitness ==
    /\ last.op = "new_comment"
    /\ last.notification = "Err"
    /\ last.insert = "Ok"
    /\ last.status = "Ok"
    /\ comments # <<>>

\* C20. In new_comment, when thread resolution fails with PathCheckFailed
\* the status is Forbidden (403), with any other error of thread resolution
\* it is InternalServerError (500), and in both cases Comment::insert is not
\* called and the table is unchanged.
ThreadErrorRejects ==
    [][ (/\ last'.op = "new_comment"
         /\ last'.comment.kind = "Ok"
         /\ last'.thread # "Ok")
        => /\ last'.status = IF last'.thread = "PathCheckFailed"
                             THEN "Forbidden" ELSE "InternalServerError"
           /\ last'.insert = "NotCalled"
           /\ last'.notification = "NotAttempted"
           /\ comments' = comments
      ]_vars

\* C20: a request for an unknown path has been answered Forbidden, with
\* comments in the table.
ThreadErrorRejectsWitness ==
    /\ last.op = "new_comment"
    /\ last.comment.kind = "Ok"
    /\ last.thread = "PathCheckFailed"
    /\ last.status = "Forbidden"
    /\ last.insert = "NotCalled"
    /\ comments # <<>>

NextWrites ==
    \/ \E p \in VotedParent :
          /\ NextId(comments) \in VotedId
          /\ Insert(1, Form(Anonymous, "hello", p), <<"1">>, MaxLimit)
    \/ \E id \in VotedId : Delete(id)
    \/ \E id \in VotedId : Update(id, FormEdit(Named, "edit"), <<"1">>)
    \/ \E id \in VotedId : Vote(id, <<"1">>, TRUE)

SpecWrites == Init /\ [][NextWrites]_vars

\* C22. nesting_check returns absent for an absent parent; for a requested
\* parent p it returns p when no comment has id p or when the depth of p
\* (p and its ancestors, counted) is at most the limit; otherwise it returns
\* the parent of p, absent when p has none, and no higher ancestor.
NestingOneLevelUp ==
    [][ (last'.op = "insert" /\ last'.status = "Ok")
        => LET p   == last'.form.parent
               eff == comments'[Unwrap(last'.res).id].parent
           IN  IF p = None THEN eff = None
               ELSE IF Unwrap(p) \notin Ids(comments) THEN eff = p
               ELSE IF 1 + Cardinality(Ancestors(comments, Unwrap(p)))
                          <= last'.nesting_limit
                    THEN eff = p
                    ELSE eff = comments[Unwrap(p)].parent
      ]_vars

\* C22: an insert has stored the parent of the requested parent, one level
\* up, which is itself deeper than the limit.
NestingOneLevelUpWitness ==
    /\ last.op = "insert"
    /\ last.status = "Ok"
    /\ last.form.parent # None
    /\ Unwrap(last.res).parent # None
    /\ Unwrap(last.res).parent # last.form.parent
    /\ Unwrap(last.form.parent) \in Ids(comments)
    /\ comments[Unwrap(last.form.parent)].parent = Unwrap(last.res).parent
    /\ Unwrap(Unwrap(last.res).parent) \in Ids(comments)
    /\ Acyclicity
    /\ 1 + Cardinality(Ancestors(comments, Unwrap(Unwrap(last.res).parent)))
          > last.nesting_limit

-----------------------------------------------------------------------------
(* Calls that run interleaved.  Each call runs on its own connection; a    *)
(* statement it sends to the database is one step, and the statements of   *)
(* one call are in no transaction.  What a call has read it holds in its   *)
(* locals, in `calls`.                                                     *)

\* The other calls and the rest of the state are left alone.
Becomes(k, call) == calls' = [calls EXCEPT ![k] = call]

\* Comment::vote is called on connection k.
VoteStart(k, id, ip_addr, upvote) ==
    /\ calls[k] = Idle
    /\ Becomes(k, [ op |-> "vote", pc |-> "read", id |-> id,
                    ip_addr |-> ip_addr, upvote |-> upvote,
                    voters_blob |-> None, can_vote |-> TRUE,
                    status |-> "", res |-> None ])
    /\ UNCHANGED <<comments, now, voted, last>>

\* The read of the voters column: .first() fails when there is no row.
VoteRead(k) ==
    /\ calls[k].op = "vote" /\ calls[k].pc = "read"
    /\ IF calls[k].id \in Ids(comments)
       THEN Becomes(k, [calls[k] EXCEPT !.pc = "check",
                            !.voters_blob = comments[calls[k].id].voters])
       ELSE Becomes(k, [calls[k] EXCEPT !.pc = "done", !.status = "DBRead"])
    /\ UNCHANGED <<comments, now, voted, last>>

\* The table after the UPDATE of VotersBlob::store: no row is written when
\* none has the id.
Stored(t, id, blob) ==
    IF id \in Ids(t) THEN VotersBlobStore(t, id, blob) ELSE t

\* The check of the address against the voters that were read, and the
\* store that follows it when the address can vote.
VoteCheck(k) ==
    LET c == calls[k]
    IN  /\ c.op = "vote" /\ c.pc = "check"
        /\ UNCHANGED <<now, voted, last>>
        /\ IF c.voters_blob # None
           THEN LET blob  == Unwrap(c.voters_blob)
                    bloom == BloomFromExisting(blob)
                IN  IF BloomCheck(bloom, c.ip_addr)
                    THEN /\ comments' = comments
                         /\ Becomes(k, [c EXCEPT !.pc = "tally",
                                                 !.can_vote = FALSE])
                    ELSE /\ comments' = Stored(comments, c.id,
                                StoredAfterCheck(blob, BloomSet(bloom, c.ip_addr)))
                         /\ Becomes(k, [c EXCEPT !.pc = "tally"])
           ELSE /\ comments' = Stored(comments, c.id,
                                VotersBlobNew(BloomSet(BloomNew, c.ip_addr)))
                /\ Becomes(k, [c EXCEPT !.pc = "tally"])

\* The table after the counter UPDATE: no row is written when none has the id.
Tallied(t, id, upvote) ==
    IF id \in Ids(t) THEN Tally(t, id, upvote) ELSE t

\* The counter update and the return of the call.
VoteTally(k) ==
    LET c == calls[k]
    IN  /\ c.op = "vote" /\ c.pc = "tally"
        /\ UNCHANGED <<now, last>>
        /\ IF c.can_vote
           THEN /\ comments' = Tallied(comments, c.id, c.upvote)
                /\ voted' = voted \cup {<<c.id, c.ip_addr>>}
                /\ Becomes(k, [c EXCEPT !.pc = "done", !.status = "Ok"])
           ELSE /\ comments' = comments
                /\ voted' = voted
                /\ Becomes(k, [c EXCEPT !.pc = "done",
                                        !.status = "AlreadyVoted"])

\* Two vote calls, statement by statement, on comments inserted before or
\* between them.
NextVoteRace ==
    \/ /\ NextId(comments) \in EditedId
       /\ Insert(1, Form(Anonymous, "hello", None), <<"1">>, MaxLimit)
    \/ \E k \in Slots, id \in EditedId, ip_addr \in Ips, upvote \in BOOLEAN :
          VoteStart(k, id, ip_addr, upvote)
    \/ \E k \in Slots : VoteRead(k)
    \/ \E k \in Slots : VoteCheck(k)
    \/ \E k \in Slots : VoteTally(k)

SpecVoteRace == Init /\ [][NextVoteRace]_vars

\* Two calls of vote for the same comment and address have returned, and
\* each had read the voters of the comment before any were stored.
BothReadFirst ==
    /\ \A k \in Slots : calls[k].op = "vote" /\ calls[k].pc = "done"
    /\ calls[1].id = calls[2].id
    /\ calls[1].ip_addr = calls[2].ip_addr
    /\ \A k \in Slots : calls[k].status # "DBRead" /\ calls[k].voters_blob = None

\* C23. When two interleaved vote calls for the same comment and the same
\* address both read the voters as they were before either stored them,
\* both return Ok and the counters of the comment are raised twice for the
\* one address.
VoteCountedTwice ==
    BothReadFirst
    => LET row == comments[calls[1].id]
       IN  /\ \A k \in Slots : calls[k].status = "Ok"
           /\ UnwrapOr(row.likes, 0) + UnwrapOr(row.dislikes, 0) = 2
           /\ row.voters = Some({calls[1].ip_addr})

\* C23: such an execution.
VoteCountedTwiceWitness ==
    /\ BothReadFirst
    /\ \A k \in Slots : calls[k].status = "Ok"
    /\ calls[1].upvote /\ calls[2].upvote
    /\ comments[calls[1].id].likes = Some(2)

-----------------------------------------------------------------------------
(* Comment::insert, statement by statement.                                *)

\* Comment::insert is called on connection k: the time is read, and
\* nesting_check returns at once when the form has no parent.  `before` is
\* the table as it was when the call started; the code does not read it.
InsertStart(k, tid, form, ip_addr, nesting_limit) ==
    /\ calls[k] = Idle
    /\ Becomes(k, [ op |-> "insert",
                    pc |-> IF form.parent = None THEN "write" ELSE "depth",
                    tid |-> tid, form |-> form, ip_addr |-> ip_addr,
                    nesting_limit |-> nesting_limit, time |-> now,
                    before |-> comments,
                    parent_id |-> None, written |-> None,
                    comment_id |-> None, status |-> "", res |-> None ])
    /\ UNCHANGED <<comments, now, voted, last>>

\* The depth query of nesting_check and the test of its result: the call
\* hangs when the query does not end.
InsertDepth(k) ==
    LET c     == calls[k]
        pid   == Unwrap(c.form.parent)
        depth == parent_depth(comments, pid)
    IN  /\ c.op = "insert" /\ c.pc = "depth"
        /\ IF nesting_diverges(comments, c.form.parent)
           THEN Becomes(k, [c EXCEPT !.pc = "hung", !.status = "Diverges"])
           ELSE IF depth = <<>> \/ depth[1] <= c.nesting_limit
           THEN Becomes(k, [c EXCEPT !.pc = "write", !.parent_id = Some(pid)])
           ELSE Becomes(k, [c EXCEPT !.pc = "parent"])
        /\ UNCHANGED <<comments, now, voted, last>>

\* The read of the parent's parent in nesting_check: .first() fails when the
\* row is no longer there.
InsertParent(k) ==
    LET c   == calls[k]
        pid == Unwrap(c.form.parent)
    IN  /\ c.op = "insert" /\ c.pc = "parent"
        /\ IF pid \in Ids(comments)
           THEN Becomes(k, [c EXCEPT !.pc = "write",
                                     !.parent_id = comments[pid].parent])
           ELSE Becomes(k, [c EXCEPT !.pc = "done", !.status = "DBRead"])
        /\ UNCHANGED <<comments, now, voted, last>>

\* The INSERT.  `written` is the id the table gave the row; the code does
\* not read it.
InsertWrite(k) ==
    LET c   == calls[k]
        row == NewComment(c.tid, c.parent_id, c.time, c.form, c.ip_addr)
    IN  /\ c.op = "insert" /\ c.pc = "write"
        /\ NextId(comments) <= MaxId
        /\ comments' = With(comments, NextId(comments), row)
        /\ Becomes(k, [c EXCEPT !.pc = "fetch",
                                !.written = Some(NextId(comments))])
        /\ UNCHANGED <<now, voted, last>>

\* FetchedId reading the id of the row the call's own INSERT wrote.
FetchedOwn(t, written) == written

\* The id Comment::insert fetches after its INSERT: the largest id of the
\* table, or no id when the table is empty.
FetchedId(t, written) == IF Ids(t) = {} THEN None ELSE Some(LargestId(t))

\* The fetch of the id of the new row.
InsertFetch(k) ==
    LET c  == calls[k]
        id == FetchedId(comments, c.written)
    IN  /\ c.op = "insert" /\ c.pc = "fetch"
        /\ IF id # None
           THEN Becomes(k, [c EXCEPT !.pc = "get", !.comment_id = id])
           ELSE Becomes(k, [c EXCEPT !.pc = "done", !.status = "DBRead"])
        /\ UNCHANGED <<comments, now, voted, last>>

\* PrintedComment::get of the fetched id and the return of the call.
InsertGet(k) ==
    LET c  == calls[k]
        id == Unwrap(c.comment_id)
    IN  /\ c.op = "insert" /\ c.pc = "get"
        /\ IF id \in Ids(comments)
           THEN Becomes(k, [c EXCEPT !.pc = "done", !.status = "Ok",
                                !.res = Some(InsertedComment(comments, id))])
           ELSE Becomes(k, [c EXCEPT !.pc = "done", !.status = "DBRead"])
        /\ UNCHANGED <<comments, now, voted, last>>

\* Two insert calls, statement by statement, after comments inserted one
\* call at a time.
NextInsertRace ==
    \/ /\ NextId(comments) \in EditedId
       /\ \A k \in Slots : calls[k] = Idle
       /\ Insert(1, Form(Anonymous, "hello", None), <<"1">>, MaxLimit)
    \/ \E k \in Slots, parent \in {None} \cup {Some(i) : i \in EditedId},
          nesting_limit \in {0, MaxLimit} :
          InsertStart(k, 1, Form(Anonymous, "hello", parent), <<"1">>,
                      nesting_limit)
    \/ \E k \in Slots : InsertDepth(k)
    \/ \E k \in Slots : InsertParent(k)
    \/ \E k \in Slots : InsertWrite(k)
    \/ \E k \in Slots : InsertFetch(k)
    \/ \E k \in Slots : InsertGet(k)

SpecInsertRace == Init /\ [][NextInsertRace]_vars

\* The other connection.
Other(k) == CHOOSE j \in Slots : j # k

\* Call k of insert wrote its row, and the other call wrote one after it.
WroteBefore(k) ==
    /\ calls[k].op = "insert" /\ calls[k].written # None
    /\ calls[Other(k)].op = "insert" /\ calls[Other(k)].written # None
    /\ Unwrap(calls[k].written) < Unwrap(calls[Other(k)].written)

\* C24. An insert call that fetches the highest id after another call has
\* written its row fetches the id of that row, and the InsertedComment it
\* returns then carries the id and the parent of the row the other call
\* wrote, not of its own.
InsertReturnsOthersRow ==
    [][\A k \in Slots :
          /\ (calls[k].pc = "fetch" /\ calls'[k].pc = "get" /\ WroteBefore(k))
             => calls'[k].comment_id = calls[Other(k)].written
          /\ (calls[k].pc = "get" /\ calls'[k].status = "Ok"
                /\ calls[k].comment_id # calls[k].written)
             => LET res == Unwrap(calls'[k].res)
                    id  == Unwrap(calls[Other(k)].written)
                IN  /\ res.id = id
                    /\ res.id # Unwrap(calls[k].written)
                    /\ res.parent = comments[id].parent]_vars

\* C24: a call that posted a top-level comment has returned the id and the
\* parent of the reply the other call wrote.
InsertReturnsOthersRowWitness ==
    \E k \in Slots :
        /\ calls[k].op = "insert" /\ calls[k].status = "Ok"
        /\ calls[k].form.parent = None
        /\ WroteBefore(k)
        /\ Unwrap(calls[k].res).id = Unwrap(calls[Other(k)].written)
        /\ Unwrap(calls[k].res).id # Unwrap(calls[k].written)
        /\ Unwrap(calls[k].res).parent # None
        /\ comments[Unwrap(calls[k].written)].parent = None

-----------------------------------------------------------------------------
(* Comment::delete, statement by statement.                                *)

\* Comment::delete is called on connection k.  `before` is the table as it
\* was when the call started; the code does not read it.
DeleteStart(k, id) ==
    /\ calls[k] = Idle
    /\ Becomes(k, [ op |-> "delete", pc |-> "count", id |-> id,
                    before |-> comments, children_count |-> 0,
                    child |-> {}, status |-> "", res |-> None ])
    /\ UNCHANGED <<comments, now, voted, last>>

\* The count of the children of the comment.
DeleteCount(k) ==
    LET c == calls[k]
    IN  /\ c.op = "delete" /\ c.pc = "count"
        /\ Becomes(k, [c EXCEPT !.pc = "remove",
                 !.children_count = Cardinality(Children(comments, c.id))])
        /\ UNCHANGED <<comments, now, voted, last>>

\* The DELETE or the UPDATE of the row, chosen by the count that was read.
DeleteRemove(k) ==
    LET c == calls[k]
    IN  /\ c.op = "delete" /\ c.pc = "remove"
        /\ comments' =
             IF c.children_count = 0
             THEN Without(comments, {c.id})
             ELSE [i \in Ids(comments) |->
                     IF i = c.id THEN ModeDelete(comments[i]) ELSE comments[i]]
        /\ voted' = {v \in voted : v[1] # c.id}
        /\ Becomes(k, [c EXCEPT !.pc = "load"])
        /\ UNCHANGED <<now, last>>

\* The load of the parent column of the rows that have a parent.
DeleteLoad(k) ==
    LET c == calls[k]
    IN  /\ c.op = "delete" /\ c.pc = "load"
        /\ Becomes(k, [c EXCEPT !.pc = "sweep",
                 !.child = {Unwrap(comments[x].parent) :
                              x \in {y \in Ids(comments) :
                                       comments[y].parent # None}}])
        /\ UNCHANGED <<comments, now, voted, last>>

\* The sweep, with the parents that were loaded, and the return of the call.
DeleteSweep(k) ==
    LET c    == calls[k]
        gone == {i \in Ids(comments) :
                   comments[i].mode = Tombstoned /\ i \notin c.child}
    IN  /\ c.op = "delete" /\ c.pc = "sweep"
        /\ comments' = Without(comments, gone)
        /\ voted' = {v \in voted : v[1] \notin gone}
        /\ Becomes(k, [c EXCEPT !.pc = "done", !.status = "Ok"])
        /\ UNCHANGED <<now, last>>

\* A delete call and an insert call, statement by statement, after comments
\* inserted one call at a time.
NextDeleteRace ==
    \/ /\ NextId(comments) \in EditedId
       /\ \A k \in Slots : calls[k] = Idle
       /\ Insert(1, Form(Anonymous, "hello", None), <<"1">>, MaxLimit)
    \/ \E id \in EditedId : DeleteStart(1, id)
    \/ DeleteCount(1)
    \/ DeleteRemove(1)
    \/ DeleteLoad(1)
    \/ DeleteSweep(1)
    \/ \E parent \in {None} \cup {Some(i) : i \in EditedId},
          nesting_limit \in {0, MaxLimit} :
          InsertStart(2, 1, Form(Anonymous, "hello", parent), <<"1">>,
                      nesting_limit)
    \/ InsertDepth(2)
    \/ InsertParent(2)
    \/ InsertWrite(2)
    \/ InsertFetch(2)
    \/ InsertGet(2)

SpecDeleteRace == Init /\ [][NextDeleteRace]_vars

\* Comment id was in table t, with no children.
Childless(t, id) == id \in Ids(t) /\ Children(t, id) = {}

\* A delete of a comment and an insert of a reply to it have both returned,
\* and the comment was there, with no children, when each of them started.
DeleteAndReplyDone ==
    /\ calls[1].op = "delete" /\ calls[1].pc = "done"
    /\ calls[2].op = "insert" /\ calls[2].pc = "done"
    /\ calls[2].form.parent = Some(calls[1].id)
    /\ Childless(calls[1].before, calls[1].id)
    /\ Childless(calls[2].before, calls[1].id)

\* C25. Once a delete of comment A and an interleaved insert of a reply to
\* A have both returned, the parent stored in the reply is absent or the id
\* of a comment in the table.
ReplyParentExists ==
    (DeleteAndReplyDone /\ calls[2].written # None
       /\ Unwrap(calls[2].written) \in Ids(comments))
    => LET parent == comments[Unwrap(calls[2].written)].parent
       IN  parent = None \/ Unwrap(parent) \in Ids(comments)

-----------------------------------------------------------------------------
(* A delete call and the parents of the comments it leaves.                *)

\* The parent of comment c of table t is the id of a row of t.
ParentStored(t, c) == t[c].parent # None /\ Unwrap(t[c].parent) \in Ids(t)

\* C26. A delete call run on its own removes no comment that a remaining
\* comment has as parent: every comment left by the call whose parent was in
\* the table before the call has its parent in the table after it.
DeleteKeepsParents ==
    [][ last'.op = "delete"
        => \A c \in Ids(comments') :
              ParentStored(comments, c) => ParentStored(comments', c)
      ]_vars

\* C26: a delete call has removed a childless reply, and a reply beside it
\* still has its parent, a Tombstoned comment that the sweep of the call
\* left in place.
DeleteKeepsParentsWitness ==
    /\ last.op = "delete"
    /\ last.old # None
    /\ last.id \notin Ids(comments)
    /\ \E c \in Ids(comments) :
          /\ ParentStored(comments, c)
          /\ comments[c].mode = Visible
          /\ comments[Unwrap(comments[c].parent)].mode = Tombstoned

-----------------------------------------------------------------------------
(* NestedComment::list on any table.                                       *)

\* The largest id of the tables listed.
MaxListed == 3

\* The thread and the mode of a row: live, under review or flagged as
\* deleted in the thread listed, or live in another thread.
ListedKinds == {<<1, Visible>>, <<1, Pending>>, <<1, Tombstoned>>, <<2, Visible>>}

\* The rows of those tables: any parent, one the table has no row for
\* included.
ListedRows ==
    { [NewComment(kind[1], parent, 0, Form(Anonymous, "hello", parent), <<"1">>)
         EXCEPT !.mode = kind[2]] :
      kind \in ListedKinds,
      parent \in {None} \cup {Some(p) : p \in 1..(MaxListed + 1)} }

\* The tables: any rows under any ids.
ListedTables == UNION {[S -> ListedRows] : S \in SUBSET (1..MaxListed)}

InitList ==
    /\ comments \in ListedTables
    /\ now = 0
    /\ voted = {}
    /\ last = [op |-> "init", status |-> "Ok", res |-> None]
    /\ calls = [k \in Slots |-> Idle]

NextList == List(1)

SpecList == InitList /\ [][NextList]_vars

\* Whether build_tree panicked at a node of the forest.
RECURSIVE Panicked(_)
Panicked(forest) ==
    IF forest = <<>> THEN FALSE
    ELSE \/ "panic" \in DOMAIN Head(forest)
         \/ Panicked(Head(forest).children)
         \/ Panicked(Tail(forest))

\* C27. build_tree is called only with ids of loaded comments, so that the
\* unwrap of the position never panics, and with each of them at most once,
\* whatever rows the table holds.
BuildTreeFindsEveryId ==
    last.op = "list"
    => LET loaded  == PrintedList(comments, last.tid)
           forest  == Unwrap(last.res)
           visited == NodeIds(forest)
       IN  /\ ~Panicked(forest)
           /\ \A k \in 1..Len(visited) :
                 \E j \in 1..Len(loaded) : loaded[j] = visited[k]
           /\ \A j, k \in 1..Len(visited) : visited[j] = visited[k] => j = k

\* C27: list has returned a top-level comment with a reply, and has left out
\* a loaded comment whose parent is not loaded or leads back to it.
BuildTreeFindsEveryIdWitness ==
    /\ last.op = "list"
    /\ \E k \in 1..Len(Unwrap(last.res)) : Unwrap(last.res)[k].children # <<>>
    /\ Len(NodeIds(Unwrap(last.res))) < Len(PrintedList(comments, last.tid))

-----------------------------------------------------------------------------
(* Comment::insert returning an error.                                     *)

\* C28. When Comment::insert returns an error, whichever of its statements
\* failed, the table holds exactly the rows it held before the call.
FailedInsertStoresNothing ==
    [][ (last'.op = "new_comment" /\ last'.insert = "Err")
        => comments' = comments
      ]_vars

-----------------------------------------------------------------------------
(* The depth query of nesting_check.                                       *)

\* C29. The depth query of nesting_check ends for every parent a form may
\* request, in every table that insert and delete calls lead to.
DepthQueryEnds ==
    \A parent \in AnyParent : ~nesting_diverges(comments, parent)

=============================================================================
